---- MODULE Spec2Model ----
(***************************************************************************)
(* State-machine model of src/remotearchivedb.js: RemoteArchiveDB          *)
(* (loadSource, loadPayload, commitPayload) and PayloadBufferingReader     *)
(* (setLimitSkip, the async iterator).                                     *)
(*                                                                         *)
(* JavaScript values are tagged records so that a string, a byte buffer,   *)
(* a reader and null/undefined can be told apart and compared:             *)
(*   [t, b, s, u]  t = "none" | "bytes" | "str" | "reader" | "rawreader"    *)
(*                     | "throw" | "pending"                               *)
(***************************************************************************)
EXTENDS Integers, Sequences, FiniteSets, TLC

\* ------------------------------------------------------------------ bounds
NumEntries == 2
MaxLen == 2
MaxCalls == 2

\* --------------------------------------------------------- program constant
\* `if (depth < 2)`
MaxRevisitDepth == 2

\* ------------------------------------------------------------------ values
None == [t |-> "none", b |-> <<>>, s |-> "", u |-> 0]
BytesVal(b) == [t |-> "bytes", b |-> b, s |-> "", u |-> 0]
StrVal(s) == [t |-> "str", b |-> <<>>, s |-> s, u |-> 0]
ReaderVal == [t |-> "reader", b |-> <<>>, s |-> "", u |-> 0]
RawReaderVal == [t |-> "rawreader", b |-> <<>>, s |-> "", u |-> 0]
Pending == [t |-> "pending", b |-> <<>>, s |-> "", u |-> 0]
Thrown(name, url) == [t |-> "throw", b |-> <<>>, s |-> name, u |-> url]

\* JavaScript truthiness: null/undefined and "" are falsy; a Uint8Array (even an
\* empty one), a non-empty string and a reader object are truthy.
Truthy(v) ==
    CASE v.t = "none" -> FALSE
      [] v.t = "str" -> v.s # ""
      [] OTHER -> TRUE

\* `payload.length` of a Uint8Array or of a string
JsLength(v) == IF v.t = "bytes" THEN Len(v.b) ELSE Len(v.s)

Absent == "absent"
Undefined == "undefined"
Digests == {"dA", "dB"}
StoreKeys == Digests

Byte == {1, 2}
ByteSeqs == UNION {[1..n -> Byte] : n \in 0..MaxLen}

Callers == {"c1", "c2"}
Variants == {"prefix", "loader"}

\* ------------------------------------------------------------ catalog rows
Urls == 1..NumEntries
Tss == {1, 2}
TsOf(i) == 1 + (i % 2)
DigestOf(i) == CASE i <= 2 -> "dA" [] i = 3 -> "" [] OTHER -> "dB"
MimeOf(i) == IF i = 1 THEN "text/html" ELSE "warc/revisit"
OptsOf(i) == IF i = 1 THEN "optOld" ELSE Absent

CatKeys == {<<i, TsOf(i)>> : i \in Urls}

NoEntry ==
    [url |-> 0, ts |-> 0, digest |-> "", mime |-> Absent, respHeaders |-> Absent,
     extraOpts |-> Absent, payload |-> None, source |-> 0]

\* A catalog entry as ingestion leaves it: identity, digest and source set, headers
\* not yet resolved, no inline payload.
InitEntry(i) ==
    [url |-> i, ts |-> TsOf(i), digest |-> DigestOf(i), mime |-> MimeOf(i),
     respHeaders |-> Absent, extraOpts |-> OptsOf(i), payload |-> None, source |-> i]

\* ----------------------------------------------------------- parsed record
NoRec ==
    [url |-> 0, ts |-> 0, digest |-> "", respHeaders |-> Absent, extraOpts |-> Absent,
     payload |-> None, hasReader |-> FALSE, data |-> <<>>, length |-> 0,
     origURL |-> 0, origTS |-> 0]

\* The bodies a parsed record can carry: an inline payload, a live reader over
\* `data` whose declared length is `length`, neither, or a revisit pointer.
InlinePayloads == {<<>>, <<2, 1>>}
StreamData == {<<1, 2>>}

NoBody ==
    [payload |-> None, hasReader |-> FALSE, data |-> <<>>, length |-> 0,
     origURL |-> 0, origTS |-> 0]

PlainBodies ==
    {[NoBody EXCEPT !.payload = BytesVal(b)] : b \in InlinePayloads}
    \cup {[NoBody EXCEPT !.hasReader = TRUE, !.data = d, !.length = Len(d)] : d \in StreamData}
    \cup {NoBody}

RevisitBodies == {[NoBody EXCEPT !.origURL = u, !.origTS = t] : u \in Urls, t \in Tss}

MkRec(u, t, d, h, o, body) ==
    [url |-> u, ts |-> t, digest |-> d, respHeaders |-> h, extraOpts |-> o,
     payload |-> body.payload, hasReader |-> body.hasReader, data |-> body.data,
     length |-> body.length, origURL |-> body.origURL, origTS |-> body.origTS]

\* Records that agree with the entry on url, ts and digest.
MatchRecs(cdx) ==
    {MkRec(cdx.url, cdx.ts, cdx.digest, "hdrNew", o, body) :
        o \in {Absent, "optNew"}, body \in PlainBodies}
    \cup
    {MkRec(cdx.url, cdx.ts, cdx.digest, "hdrNew", Absent, body) : body \in RevisitBodies}

\* Records that differ from the entry in at least one of url, ts, digest.
MismatchRecs(cdx) ==
    {MkRec(u, t, d, "hdrNew", "optNew", body) :
        u \in {cdx.url, (cdx.url % NumEntries) + 1},
        t \in {cdx.ts, 3 - cdx.ts},
        d \in {cdx.digest, "dB", "dX"},
        body \in (PlainBodies \ {NoBody}) \cup {[NoBody EXCEPT !.origURL = 1, !.origTS = TsOf(1)]}}
    \ {r \in MatchRecs(cdx) \cup {MkRec(cdx.url, cdx.ts, cdx.digest, "hdrNew", "optNew", b) :
                                    b \in RevisitBodies} : TRUE}

\* What the byte-range fetch and the single-record parser can hand back.
FetchOutcomes(cdx) ==
    {[kind |-> "error", status |-> s, rec |-> NoRec] : s \in {401, 403, 500, 0}}
    \cup {[kind |-> "norecord", status |-> 200, rec |-> NoRec]}
    \cup {[kind |-> "record", status |-> 200, rec |-> r] :
            r \in MatchRecs(cdx) \cup MismatchRecs(cdx)}

\* ------------------------------------------------------------------- state
VARIABLES
    catalog,        \* "resources" store: <<url, ts>> -> entry
    payloadStore,   \* "payload" store: key -> stored value (None = no row)
    digestRef,      \* "digestRef" store: key -> [present, size, count]
    useRefCounts,   \* this.useRefCounts
    variant,        \* how the db was constructed: url prefix + headers, or loader
    stack,          \* per caller: the loadPayload activations, outermost first
    result,         \* per caller: what the last top-level loadPayload produced
    rd,             \* per caller: the PayloadBufferingReader handed to it
    calls           \* top-level loadPayload calls started so far

vars == <<catalog, payloadStore, digestRef, useRefCounts, variant, stack, result, rd,
          calls>>

NoRef == [present |-> FALSE, size |-> 0, count |-> 0]

\* A PayloadBufferingReader with the reader it wraps (data, pos, limit, skip).
\* History fields, not read by the program: yielded (bytes handed to the
\* consumer), ncommits / committed / ckey (its commitPayload calls), limited and
\* cut (setLimitSkip was called; was called with skip > 0 and a finite limit),
\* gen (which instance this is), reread (an iteration was started after the
\* reader had been read), length (the record's length it was built with),
\* readRet (what the last readFully call on it returned).
NoReader ==
    [exists |-> FALSE, digest |-> "", url |-> 0, chunks |-> <<>>, size |-> 0,
     fullbuff |-> None, commit |-> TRUE, alreadyRead |-> FALSE,
     data |-> <<>>, pos |-> 0, limit |-> 0, skip |-> 0, iter |-> FALSE,
     yielded |-> <<>>, ncommits |-> 0, committed |-> None, ckey |-> "",
     limited |-> FALSE, cut |-> FALSE, gen |-> 0, reread |-> FALSE,
     length |-> 0, readRet |-> None]

\* PayloadBufferingReader constructor over the record's reader.
NewReader(digest, url, data, length) ==
    [NoReader EXCEPT !.exists = TRUE, !.digest = digest, !.url = url,
                     !.data = data, !.limit = length, !.length = length]

\* One activation of loadPayload. pc is the await it is suspended at: "fetch",
\* "lookup", "await" (the recursive call), "resume", "persist", or "ret" /
\* "throw" once it has a result. History fields, not read by the program:
\* fetched (what the fetch and the parser handed back), putOk (whether its put
\* of the entry went through), hops (the records parsed by this activation and
\* the activations it called), below (a put of an activation it called went
\* through).
NoFrame(cdx, depth) ==
    [cdx |-> cdx, depth |-> depth, pc |-> "fetch", payload |-> None,
     remote |-> NoRec, orig |-> NoEntry, ret |-> None,
     fetched |-> "none", status |-> 0, putOk |-> FALSE,
     hops |-> <<>>, below |-> FALSE]

\* ----------------------------------------------------------------- stores
\* ArchiveDB.loadPayload: the entry's inline payload, else the payload-store row
\* under the entry's digest.
SuperLoadPayload(cdx, store) ==
    IF cdx.digest # "" /\ ~Truthy(cdx.payload)
    THEN (IF cdx.digest \in StoreKeys THEN store[cdx.digest] ELSE None)
    ELSE cdx.payload

\* ArchiveDB.lookupUrl: the catalog row for (url, ts), or nothing.
LookupUrl(cat, url, ts) ==
    IF <<url, ts>> \in DOMAIN cat THEN cat[<<url, ts>>] ELSE NoEntry

\* PutResource that stores nothing.
PutResourceDropped(cat, cdx) == cat

\* put of an entry into "resources", keyed by its (url, ts)
KeyOf(cdx) == <<cdx.url, cdx.ts>>
PutResource(cat, cdx) == [cat EXCEPT ![<<cdx.url, cdx.ts>>] = cdx]

\* commitPayload(payload, digest): the stores after the call. `ok` is whether
\* the readwrite transaction on ["payload", "digestRef"] goes through; a failed
\* one is caught and logged and writes nothing. Both stores are keyed by the
\* row's `digest` field, so a put of a row whose digest is undefined is
\* rejected by the store, which is caught and logged like any other failure.
CommitStore(store, payload, digest, ok) ==
    IF ~Truthy(payload) \/ ~ok \/ digest = Undefined
    THEN store
    ELSE [store EXCEPT ![digest] = payload]

\* CommitRefs that writes a row where none exists.
CommitRefsCreate(refs, useRef, payload, digest, ok) ==
    IF ~Truthy(payload) \/ ~ok \/ digest = Undefined \/ ~useRef
    THEN refs
    ELSE [refs EXCEPT ![digest] = [present |-> TRUE, size |-> JsLength(payload),
                                   count |-> @.count]]

CommitRefs(refs, useRef, payload, digest, ok) ==
    IF ~Truthy(payload) \/ ~ok \/ digest = Undefined \/ ~useRef \/ ~refs[digest].present
    THEN refs
    ELSE [refs EXCEPT ![digest].size = JsLength(payload)]

\* ------------------------------------------------------------- loadSource
\* The value the identifier `url` is bound to in the catch block, 0 for none:
\* `const url` is declared inside the else branch of `if (this.loader)`, so the
\* catch block sees no binding in either construction variant.
UrlInCatch(v, source) == 0

\* LoadSourceThrows with the catch block rethrowing whatever getRange raised.
LoadSourceRethrows(v, status, source) ==
    IF status = 401 \/ status = 403
    THEN Thrown("ReferenceError", 0)
    ELSE Thrown("FetchError", 0)

\* What loadSource throws for a failed getRange with this status (None: it
\* returns null instead). Evaluating an unbound identifier raises ReferenceError
\* before AuthNeeded is constructed.
LoadSourceThrows(v, status, source) ==
    IF status = 401 \/ status = 403
    THEN (IF UrlInCatch(v, source) = 0
          THEN Thrown("ReferenceError", 0)
          ELSE Thrown("AuthNeeded", UrlInCatch(v, source)))
    ELSE None

\* ------------------------------------------------------------ loadPayload
Top(c) == stack[c][Len(stack[c])]
SetTop(c, f) == [stack EXCEPT ![c] = [@ EXCEPT ![Len(@)] = f]]

\* A returning activation: its locals other than the entry object are dead.
Ret(f, v) == [f EXCEPT !.pc = "ret", !.ret = v, !.payload = None, !.orig = NoEntry]
Throw(f, e) == [f EXCEPT !.pc = "throw", !.ret = e, !.payload = None, !.orig = NoEntry]

\* Enter without the test of the entry's mime.
EnterAnyMime(cdx, depth, store) ==
    LET p == SuperLoadPayload(cdx, store)
        f == [NoFrame(cdx, depth) EXCEPT !.payload = p]
    IN  IF Truthy(p) /\ cdx.respHeaders # Absent
        THEN Ret(f, p)
        ELSE f

\* Entry of loadPayload(cdx, depth): the local lookup and the early return.
Enter(cdx, depth, store) ==
    LET p == SuperLoadPayload(cdx, store)
        f == [NoFrame(cdx, depth) EXCEPT !.payload = p]
    IN  IF Truthy(p) /\ cdx.respHeaders # Absent /\ cdx.mime # "warc/revisit"
        THEN Ret(f, p)
        ELSE f

\* The arguments commitPayload receives from the inline-payload call site,
\* `this.commitPayload(digest)`: the digest lands in the `payload` parameter and
\* the `digest` parameter is undefined.
InlineCommitArgs(payload, digest) ==
    [payload |-> (IF digest = "" THEN None ELSE StrVal(digest)), digest |-> Undefined]

\* The reader returned for a record that carries one: wrapped in a
\* PayloadBufferingReader when the record has a digest.
Wrapped(r) == r.hasReader /\ r.digest # ""

\* Resolved without the assignment of respHeaders.
ResolvedNoHeaders(cdx, r) ==
    [cdx EXCEPT !.digest = r.digest,
                !.extraOpts = IF r.extraOpts # Absent THEN r.extraOpts ELSE @]

\* The entry as the non-revisit path rewrites it before the put.
Resolved(cdx, r) ==
    [cdx EXCEPT !.respHeaders = r.respHeaders,
                !.digest = r.digest,
                !.extraOpts = IF r.extraOpts # Absent THEN r.extraOpts ELSE @]

\* Collapsed without the assignment of mime.
CollapsedKeepMime(cdx, orig) ==
    [cdx EXCEPT !.respHeaders = orig.respHeaders, !.payload = None]

\* The entry as the revisit path rewrites it before the put.
Collapsed(cdx, orig) ==
    [cdx EXCEPT !.respHeaders = orig.respHeaders, !.mime = orig.mime, !.payload = None]

\* The record is not the capture the entry names (history of the fetch).
Differs(r, cdx) == ~(r.url = cdx.url /\ r.ts = cdx.ts /\ r.digest = cdx.digest)

\* Mismatch without the digest comparison.
MismatchNoDigest(r, cdx) == r.url # cdx.url \/ r.ts # cdx.ts

\* Validation of the parsed record against the entry.
Mismatch(r, cdx) == r.url # cdx.url \/ r.ts # cdx.ts \/ r.digest # cdx.digest

\* Follows with the depth test off by one.
FollowsOffByOne(depth) == depth <= MaxRevisitDepth

\* Whether a revisit record met at this depth is followed.
Follows(depth) == depth < MaxRevisitDepth

\* `new SingleRecordWARCLoader(responseStream).load()`: the parsed record, or
\* nothing when loadSource handed back null or the stream holds no record.
LoadRecord(out) == IF out.kind = "record" THEN out.rec ELSE NoRec

\* The history entry of an activation: the entry it resolved, where its record
\* points if it is a matching revisit, and whether a local payload was found.
Hop(f, out) ==
    LET r == out.rec
        rev == out.kind = "record" /\ ~Differs(r, f.cdx) /\ r.origURL # 0
    IN  [url |-> f.cdx.url, ts |-> f.cdx.ts,
         origURL |-> IF rev THEN r.origURL ELSE 0,
         origTS |-> IF rev THEN r.origTS ELSE 0,
         local |-> Truthy(f.payload)]

\* The activation after the fetched record was parsed and validated, up to the
\* first suspension: "ret" (no payload), "lookup" (revisit), "persist" (inline
\* payload, commit issued) or "put" (streaming reader, nothing to await).
AfterFetch(f0, out) ==
    LET r == LoadRecord(out)
        f == [f0 EXCEPT !.fetched = IF out.kind = "record" /\ Differs(r, f0.cdx)
                                    THEN "mismatch" ELSE out.kind,
                        !.status = out.status,
                        !.hops = <<Hop(f0, out)>>]
    IN  IF r = NoRec THEN Ret(f, None)
        ELSE IF Mismatch(r, f.cdx) THEN Ret(f, None)
        ELSE IF r.origURL # 0 THEN [f EXCEPT !.pc = "lookup", !.remote = r]
        ELSE IF ~Truthy(r.payload) /\ ~r.hasReader THEN Ret(f, None)
        ELSE [f EXCEPT !.pc = IF Truthy(r.payload) THEN "persist" ELSE "put",
                       !.remote = r, !.payload = r.payload]

\* AfterPut with the entry put as it was, before lines 147-151.
AfterPutUnresolved(f, ok) ==
    Ret([f EXCEPT !.putOk = ok],
        IF Truthy(f.payload) THEN f.payload
        ELSE IF Wrapped(f.remote) THEN ReaderVal ELSE RawReaderVal)

\* Lines 147-165 on activation f: the entry rewritten, and what is returned.
AfterPut(f, ok) ==
    Ret([f EXCEPT !.cdx = Resolved(f.cdx, f.remote), !.putOk = ok],
        IF Truthy(f.payload) THEN f.payload
        ELSE IF Wrapped(f.remote) THEN ReaderVal ELSE RawReaderVal)

Init ==
    /\ catalog = [k \in CatKeys |-> InitEntry(k[1])]
    /\ \E p \in {None, BytesVal(<<1, 2>>)} :
         payloadStore = [d \in StoreKeys |-> IF d = "dA" THEN p ELSE None]
    /\ digestRef = [d \in StoreKeys |-> NoRef]
    /\ useRefCounts = FALSE
    /\ variant \in Variants
    /\ stack = [c \in Callers |-> <<>>]
    /\ result = [c \in Callers |-> None]
    /\ rd = [c \in Callers |-> NoReader]
    /\ calls = 0

\* A caller starts loadPayload(cdx) on an entry it got from the catalog.
Call(c) ==
    /\ stack[c] = <<>>
    /\ calls < MaxCalls
    /\ calls' = calls + 1
    /\ \E k \in CatKeys :
         stack' = [stack EXCEPT ![c] = <<Enter(catalog[k], 0, payloadStore)>>]
    /\ result' = [result EXCEPT ![c] = Pending]
    /\ rd' = [rd EXCEPT ![c] = NoReader]
    /\ UNCHANGED <<catalog, payloadStore, digestRef, useRefCounts, variant>>

\* loadSource, the parser, validation, and the code up to the next await.
Fetch(c) ==
    /\ stack[c] # <<>>
    /\ Top(c).pc = "fetch"
    /\ \E out \in FetchOutcomes(Top(c).cdx), ok \in BOOLEAN :
         LET f == Top(c)
             thr == IF out.kind = "error"
                    THEN LoadSourceThrows(variant, out.status, f.cdx.source)
                    ELSE None
             g == AfterFetch(f, out)
             a == InlineCommitArgs(g.payload, g.remote.digest)
         IN  IF thr # None
             THEN /\ stack' = SetTop(c, Throw(g, thr))
                  /\ UNCHANGED <<catalog, payloadStore, digestRef, rd>>
             ELSE /\ rd' = IF g.pc \in {"persist", "put"} /\ Wrapped(g.remote)
                           THEN [rd EXCEPT ![c] = NewReader(g.remote.digest, f.cdx.url,
                                                            g.remote.data, g.remote.length)]
                           ELSE rd
                  /\ IF g.pc = "persist"
                     THEN /\ payloadStore' = CommitStore(payloadStore, a.payload, a.digest, ok)
                          /\ digestRef' = CommitRefs(digestRef, useRefCounts, a.payload, a.digest, ok)
                          /\ catalog' = catalog
                          /\ stack' = SetTop(c, g)
                     ELSE IF g.pc = "put"
                     THEN /\ catalog' = IF ok THEN PutResource(catalog, AfterPut(g, ok).cdx)
                                        ELSE catalog
                          /\ stack' = SetTop(c, AfterPut(g, ok))
                          /\ UNCHANGED <<payloadStore, digestRef>>
                     ELSE /\ stack' = SetTop(c, g)
                          /\ UNCHANGED <<catalog, payloadStore, digestRef>>
    /\ UNCHANGED <<useRefCounts, variant, result, calls>>

\* After the inline commit was awaited: rewrite the entry, put it, return.
Persist(c) ==
    /\ stack[c] # <<>>
    /\ Top(c).pc = "persist"
    /\ \E ok \in BOOLEAN :
         /\ catalog' = IF ok THEN PutResource(catalog, AfterPut(Top(c), ok).cdx) ELSE catalog
         /\ stack' = SetTop(c, AfterPut(Top(c), ok))
    /\ UNCHANGED <<payloadStore, digestRef, useRefCounts, variant, result, rd, calls>>

\* Lines 110-117 on activation f holding a payload: the put is not guarded, so
\* a failed put is thrown to the caller.
RevisitPut(c, f, ok) ==
    LET g == [f EXCEPT !.cdx = Collapsed(f.cdx, f.orig), !.putOk = ok] IN
    IF ok
    THEN /\ catalog' = PutResource(catalog, g.cdx)
         /\ stack' = SetTop(c, Ret(g, f.payload))
    ELSE /\ catalog' = catalog
         /\ stack' = SetTop(c, Throw(g, Thrown("StorageError", 0)))

\* The revisit branch once lookupUrl has answered.
Lookup(c) ==
    /\ stack[c] # <<>>
    /\ Top(c).pc = "lookup"
    /\ LET f == Top(c)
           orig == LookupUrl(catalog, f.remote.origURL, f.remote.origTS)
       IN  IF orig = NoEntry
           THEN /\ stack' = SetTop(c, Ret(f, None))
                /\ catalog' = catalog
           ELSE IF ~Truthy(f.payload)
           THEN IF Follows(f.depth)
                THEN /\ stack' = [stack EXCEPT ![c] =
                            Append(SubSeq(@, 1, Len(@) - 1),
                                   [f EXCEPT !.pc = "await", !.orig = orig])
                            \o <<Enter(orig, f.depth + 1, payloadStore)>>]
                     /\ catalog' = catalog
                ELSE /\ stack' = SetTop(c, Ret(f, None))
                     /\ catalog' = catalog
           ELSE \E ok \in BOOLEAN : RevisitPut(c, [f EXCEPT !.orig = orig], ok)
    /\ UNCHANGED <<payloadStore, digestRef, useRefCounts, variant, result, rd, calls>>

\* An activation returns or throws: to the caller, or into the activation
\* awaiting it, which sees the payload and the entry object the callee rewrote
\* (no activation catches what its callee throws).
Return(c) ==
    /\ stack[c] # <<>>
    /\ Top(c).pc \in {"ret", "throw"}
    /\ LET f == Top(c)
           n == Len(stack[c])
       IN  IF n = 1
           THEN /\ stack' = [stack EXCEPT ![c] = <<>>]
                /\ result' = [result EXCEPT ![c] = f.ret]
           ELSE /\ stack' = [stack EXCEPT ![c] =
                       Append(SubSeq(@, 1, n - 2),
                              IF f.pc = "throw"
                              THEN [Throw(@[n - 1], f.ret) EXCEPT
                                      !.hops = @ \o f.hops,
                                      !.below = @ \/ f.putOk \/ f.below]
                              ELSE [@[n - 1] EXCEPT !.pc = "resume", !.payload = f.ret,
                                                    !.orig = f.cdx, !.hops = @ \o f.hops,
                                                    !.below = @ \/ f.putOk \/ f.below])]
                /\ result' = result
    /\ UNCHANGED <<catalog, payloadStore, digestRef, useRefCounts, variant, rd, calls>>

\* The revisit branch once the recursive loadPayload has answered.
Resume(c) ==
    /\ stack[c] # <<>>
    /\ Top(c).pc = "resume"
    /\ IF ~Truthy(Top(c).payload)
       THEN /\ stack' = SetTop(c, Ret(Top(c), None))
            /\ catalog' = catalog
       ELSE \E ok \in BOOLEAN : RevisitPut(c, Top(c), ok)
    /\ UNCHANGED <<payloadStore, digestRef, useRefCounts, variant, result, rd, calls>>

\* ------------------------------------------------- PayloadBufferingReader
RECURSIVE Flatten(_)
Flatten(chunks) ==
    IF chunks = <<>> THEN <<>> ELSE Head(chunks) \o Flatten(Tail(chunks))

\* BaseAsyncIterReader.concatChunks(chunks, size): a zero-filled buffer of `size`
\* bytes with the chunks copied in, in order, from offset 0.
ConcatChunks(chunks, size) ==
    LET flat == Flatten(chunks)
    IN  [i \in 1..size |-> IF i <= Len(flat) THEN flat[i] ELSE 0]

\* SetLimitSkip assigning the flag from the last call instead of only clearing it.
SetLimitSkipAssign(r, limit, skip) ==
    [r EXCEPT !.commit = ~(limit # -1 /\ skip > 0),
              !.limit = limit,
              !.skip = skip,
              !.limited = TRUE,
              !.cut = @ \/ (limit # -1 /\ skip > 0)]

\* setLimitSkip(limit, skip) on reader r.
SetLimitSkip(r, limit, skip) ==
    [r EXCEPT !.commit = IF limit # -1 /\ skip > 0 THEN FALSE ELSE @,
              !.limit = limit,
              !.skip = skip,
              !.limited = TRUE,
              !.cut = @ \/ (limit # -1 /\ skip > 0)]

\* ReturnsAtOnce with the alreadyRead test missing.
ReturnsAtOnceNever(r) == FALSE

\* `if (this.alreadyRead) return;` at the start of an iteration.
ReturnsAtOnce(r) == ~r.iter /\ r.alreadyRead

\* Whether the underlying reader's iteration is over when asked for a chunk: it
\* stops once its limit is used up, and when the source has no byte left after
\* the bytes to skip.
Exhausted(r) == r.limit <= 0 \/ r.pos + r.skip >= Len(r.data)

\* Pulled with the chunk put in front of the buffered chunks.
PulledPrepend(r, k) ==
    LET from == r.pos + r.skip
        chunk == SubSeq(r.data, from + 1, from + k)
    IN  [r EXCEPT !.chunks = <<chunk>> \o @,
                  !.size = @ + k,
                  !.yielded = @ \o chunk,
                  !.pos = from + k,
                  !.skip = 0,
                  !.limit = @ - k,
                  !.iter = TRUE]

\* The loop body for a chunk of k bytes pulled from the underlying reader
\* (after its skip): push, add to size, yield.
Pulled(r, k) ==
    LET from == r.pos + r.skip
        chunk == SubSeq(r.data, from + 1, from + k)
    IN  [r EXCEPT !.chunks = Append(@, chunk),
                  !.size = @ + k,
                  !.yielded = @ \o chunk,
                  !.pos = from + k,
                  !.skip = 0,
                  !.limit = @ - k,
                  !.iter = TRUE]

\* WillCommit without the test of the underlying reader's limit.
WillCommitAnyLimit(r) == r.commit

\* Whether the code after the loop calls commitPayload.
WillCommit(r) == r.limit = 0 /\ r.commit

\* The code after the loop: concatenate, maybe commit, release, mark read.
Completed(r) ==
    LET full == BytesVal(ConcatChunks(r.chunks, r.size))
    IN  [r EXCEPT !.fullbuff = full,
                  !.ncommits = IF WillCommit(r) THEN @ + 1 ELSE @,
                  !.committed = IF WillCommit(r) THEN full ELSE @,
                  !.ckey = IF WillCommit(r) THEN r.digest ELSE @,
                  !.pos = IF r.pos + r.skip >= Len(r.data) THEN Len(r.data) ELSE @,
                  !.chunks = <<>>,
                  !.alreadyRead = TRUE,
                  !.iter = FALSE]

\* Drain that pulls nothing.
DrainNothing(r) == r

\* `for await (const chunk of this);` in readFully: the loop run until the
\* underlying reader's iteration is over.
RECURSIVE Drain(_)
Drain(r) == IF Exhausted(r) THEN r ELSE Drain(Pulled(r, 1))

Holds(c) == result[c].t = "reader" /\ rd[c].exists

\* The consumer narrows the reader to a sub-range.
RdSetLimitSkip(c) ==
    /\ Holds(c)
    /\ \E limit \in -1..MaxLen, skip \in 0..MaxLen :
         rd' = [rd EXCEPT ![c] = SetLimitSkip(@, limit, skip)]
    /\ UNCHANGED <<catalog, payloadStore, digestRef, useRefCounts, variant, stack, result, calls>>

\* The consumer asks for the next chunk: a chunk is yielded, or the iteration
\* ends; an iteration started on a reader already read ends at once.
RdNext(c) ==
    /\ Holds(c)
    /\ LET r == rd[c] IN
       IF ReturnsAtOnce(r)
       THEN /\ rd' = [rd EXCEPT ![c].reread = TRUE]
            /\ UNCHANGED <<payloadStore, digestRef>>
       ELSE IF Exhausted(r)
       THEN \E ok \in BOOLEAN :
              /\ rd' = [rd EXCEPT ![c] = Completed(r)]
              /\ payloadStore' =
                   IF WillCommit(r)
                   THEN CommitStore(payloadStore, Completed(r).fullbuff, r.digest, ok)
                   ELSE payloadStore
              /\ digestRef' =
                   IF WillCommit(r)
                   THEN CommitRefs(digestRef, useRefCounts, Completed(r).fullbuff, r.digest, ok)
                   ELSE digestRef
       ELSE /\ \E k \in 1..MaxLen :
                 /\ k <= r.limit
                 /\ r.pos + r.skip + k <= Len(r.data)
                 /\ rd' = [rd EXCEPT ![c] = Pulled(r, k)]
            /\ UNCHANGED <<payloadStore, digestRef>>
    /\ UNCHANGED <<catalog, useRefCounts, variant, stack, result, calls>>

\* The consumer leaves its loop early: the generator is closed at its yield,
\* which closes the iteration of the underlying reader; its source is either
\* left where it is or closed too (nothing more to pull).
RdBreak(c) ==
    /\ Holds(c)
    /\ rd[c].iter
    /\ \E closed \in BOOLEAN :
         rd' = [rd EXCEPT ![c].iter = FALSE,
                          ![c].pos = IF closed THEN Len(rd[c].data) ELSE @]
    /\ UNCHANGED <<catalog, payloadStore, digestRef, useRefCounts, variant, stack, result, calls>>

\* The consumer, not inside an iteration of its own, calls readFully and awaits
\* it: the reader is iterated to its end and fullbuff is returned.
RdReadFully(c) ==
    /\ Holds(c)
    /\ ~rd[c].iter
    /\ LET r == rd[c] IN
       IF ReturnsAtOnce(r)
       THEN /\ rd' = [rd EXCEPT ![c].reread = TRUE, ![c].readRet = r.fullbuff]
            /\ UNCHANGED <<payloadStore, digestRef>>
       ELSE \E ok \in BOOLEAN :
              LET d == Drain(r)
                  done == Completed(d)
              IN  /\ rd' = [rd EXCEPT ![c] = [done EXCEPT !.readRet = done.fullbuff]]
                  /\ payloadStore' =
                       IF WillCommit(d)
                       THEN CommitStore(payloadStore, done.fullbuff, d.digest, ok)
                       ELSE payloadStore
                  /\ digestRef' =
                       IF WillCommit(d)
                       THEN CommitRefs(digestRef, useRefCounts, done.fullbuff, d.digest, ok)
                       ELSE digestRef
    /\ UNCHANGED <<catalog, useRefCounts, variant, stack, result, calls>>

\* A later capture of the same record hands the consumer a fresh reader
\* (`new PayloadBufferingReader(this, remote.reader, digest, cdx.url)`).
NewCapture(c) ==
    /\ Holds(c)
    /\ ~rd[c].iter
    /\ rd' = [rd EXCEPT ![c] = [NewReader(rd[c].digest, rd[c].url, rd[c].data, rd[c].length)
                                   EXCEPT !.gen = 1 - rd[c].gen]]
    /\ UNCHANGED <<catalog, payloadStore, digestRef, useRefCounts, variant, stack, result, calls>>

\* ------------------------------------------------------- specifications
\* The resolution engine, one caller; a returned reader is not consumed.
Step(c) ==
    \/ Call(c)
    \/ Fetch(c)
    \/ Persist(c)
    \/ Lookup(c)
    \/ Return(c)
    \/ Resume(c)

Next == Step("c1")

Spec == Init /\ [][Next]_vars

\* The streaming reader: a consumer holding the reader loadPayload returned for
\* a non-revisit record with digest "dA".
InitReader ==
    /\ catalog = [k \in CatKeys |-> InitEntry(k[1])]
    /\ payloadStore = [d \in StoreKeys |-> None]
    /\ digestRef = [d \in StoreKeys |-> NoRef]
    /\ useRefCounts = FALSE
    /\ variant = "loader"
    /\ stack = [c \in Callers |-> <<>>]
    /\ calls = 0
    /\ result = [c \in Callers |-> IF c = "c1" THEN ReaderVal ELSE None]
    /\ \E d \in ByteSeqs, x \in {0, 1} :
         rd = [c \in Callers |-> IF c = "c1" THEN NewReader("dA", 1, d, Len(d) + x)
                                 ELSE NoReader]

NextReader ==
    \/ RdSetLimitSkip("c1")
    \/ RdNext("c1")
    \/ RdBreak("c1")
    \/ RdReadFully("c1")
    \/ NewCapture("c1")

SpecReader == InitReader /\ [][NextReader]_vars

\* One resolution by one caller, followed by the consumption of the reader it
\* returned.
NextStream ==
    \/ Call("c1") /\ calls = 0
    \/ Fetch("c1")
    \/ Persist("c1")
    \/ Lookup("c1")
    \/ Return("c1")
    \/ Resume("c1")
    \/ RdSetLimitSkip("c1")
    \/ RdNext("c1")
    \/ RdBreak("c1")
    \/ RdReadFully("c1")

SpecStream == Init /\ [][NextStream]_vars

\* The record the remote source holds for an entry, in the two-caller
\* specification: a valid non-revisit record that agrees with the entry, with
\* an inline payload for the first entry and a streaming reader for the others.
Served(cdx) ==
    IF cdx.url = 1
    THEN MkRec(cdx.url, cdx.ts, cdx.digest, "hdrNew", Absent,
               [NoBody EXCEPT !.payload = BytesVal(<<2, 1>>)])
    ELSE MkRec(cdx.url, cdx.ts, cdx.digest, "hdrNew", "optNew",
               [NoBody EXCEPT !.hasReader = TRUE, !.data = <<1, 2>>, !.length = 2])

\* Caller c starts its one call while no call has been made yet or the other
\* caller's call is in flight, on the entry the other caller is resolving.
CallSame(c) ==
    /\ Call(c)
    /\ calls < Cardinality(Callers)
    /\ calls = 0 \/ \E d \in Callers \ {c} : stack[d] # <<>>
    /\ \A d \in Callers \ {c} :
          stack[d] # <<>> => KeyOf(stack'[c][1].cdx) = KeyOf(stack[d][1].cdx)

\* The fetch of caller c is answered with the record the source holds.
FetchSame(c) ==
    /\ Fetch(c)
    /\ Top(c)'.fetched = "record"
    /\ Top(c)'.remote = Served(Top(c).cdx)

\* Two callers resolving the same entry concurrently, every interleaving of
\* their suspension points.
NextTwo ==
    \E c \in Callers :
        \/ CallSame(c)
        \/ FetchSame(c)
        \/ Persist(c)
        \/ Return(c)

SpecTwo == Init /\ [][NextTwo]_vars

\* commitPayload on its own: any ref-count rows, ref counting on or off, and
\* the arguments its two call sites can pass: a byte buffer (possibly empty)
\* with a digest, nothing, or a digest string with no digest.
RefRows ==
    {NoRef} \cup {[present |-> TRUE, size |-> s, count |-> n] : s \in 0..MaxLen, n \in {1, 2}}

CommitArgs ==
    {[payload |-> BytesVal(b), digest |-> d] : b \in ByteSeqs, d \in StoreKeys}
    \cup {[payload |-> None, digest |-> d] : d \in StoreKeys}
    \cup {InlineCommitArgs(None, d) : d \in StoreKeys}

InitCommit ==
    /\ catalog = [k \in CatKeys |-> InitEntry(k[1])]
    /\ payloadStore = [d \in StoreKeys |-> None]
    /\ digestRef \in [StoreKeys -> RefRows]
    /\ useRefCounts \in BOOLEAN
    /\ variant = "loader"
    /\ stack = [c \in Callers |-> <<>>]
    /\ result = [c \in Callers |-> None]
    /\ rd = [c \in Callers |-> NoReader]
    /\ calls = 0

\* One commitPayload(payload, digest) call, its transaction going through or not.
CommitPayload ==
    /\ \E a \in CommitArgs, ok \in BOOLEAN :
         /\ payloadStore' = CommitStore(payloadStore, a.payload, a.digest, ok)
         /\ digestRef' = CommitRefs(digestRef, useRefCounts, a.payload, a.digest, ok)
    /\ UNCHANGED <<catalog, useRefCounts, variant, stack, result, rd, calls>>

NextCommit == CommitPayload

SpecCommit == InitCommit /\ [][NextCommit]_vars

\* ------------------------------------------------------------------ claims
Frames(c) == {stack[c][i] : i \in DOMAIN stack[c]}

\* The activation accepted a matching non-revisit record that carries a payload
\* or a reader.
AcceptedPlain(f) == f.fetched = "record" /\ f.remote # NoRec /\ f.remote.origURL = 0

\* C1: when the byte-range fetch fails with status 401 or 403, loadPayload
\* raises AuthNeeded carrying the URL that was attempted, whichever way the db
\* was constructed, and nothing but AuthNeeded is raised by a failed fetch.
C1_AuthNeededRaised ==
    \A c \in Callers : \A f \in Frames(c) :
        (f.fetched = "error" /\ f.status \in {401, 403})
            => (f.pc = "throw" /\ f.ret = Thrown("AuthNeeded", f.cdx.source))

\* C2: a fetched record that differs from the entry in url, ts or digest makes
\* the activation return "no payload" with the entry as the catalog holds it,
\* and the step that parsed it writes neither the payload store nor the catalog
\* and creates no reader.
C2_MismatchNoPayloadNoWrite ==
    /\ [](\A c \in Callers : \A f \in Frames(c) :
            f.fetched = "mismatch"
                => (f.pc = "ret" /\ f.ret = None /\ catalog[KeyOf(f.cdx)] = f.cdx))
    /\ [][\A c \in Callers :
            (stack[c] # <<>> /\ Top(c).pc = "fetch" /\ stack'[c] # <<>>
             /\ Top(c)'.fetched = "mismatch")
                => (payloadStore' = payloadStore /\ catalog' = catalog /\ rd' = rd)]_vars

C2_Witness ==
    \E f \in Frames("c1") : f.fetched = "mismatch" /\ f.depth = 0 /\ f.cdx.digest = "dA"

\* What an activation that accepted record r returns for it: the inline bytes,
\* or a reader over the record's content.
ReturnsPayloadOf(c, f) ==
    LET r == f.remote IN
    IF Truthy(r.payload) THEN f.ret = r.payload
    ELSE IF r.digest # ""
    THEN f.ret = ReaderVal /\ rd[c].exists /\ rd[c].data = r.data
         /\ rd[c].digest = r.digest /\ ~rd[c].alreadyRead
    ELSE f.ret = RawReaderVal

\* C3 as stated: for every matching non-revisit record, loadPayload returns the
\* record's payload and, when it returns, the catalog holds the entry with
\* respHeaders, digest and extraOpts set from the parsed record.
C3_Original ==
    \A c \in Callers : \A f \in Frames(c) :
        (AcceptedPlain(f) /\ f.pc = "ret")
            => /\ ReturnsPayloadOf(c, f)
               /\ catalog[KeyOf(f.cdx)].respHeaders = f.remote.respHeaders
               /\ catalog[KeyOf(f.cdx)].digest = f.remote.digest
               /\ catalog[KeyOf(f.cdx)].extraOpts = f.remote.extraOpts

\* C3 (amended): for every matching non-revisit record, loadPayload returns the
\* record's payload; when it returns and the put of the entry went through, the
\* catalog holds the entry with respHeaders and digest set from the parsed
\* record, and with extraOpts set from it if the record carries any.
C3_ReturnsAndPersists ==
    \A c \in Callers : \A f \in Frames(c) :
        (AcceptedPlain(f) /\ f.pc = "ret")
            => /\ ReturnsPayloadOf(c, f)
               /\ f.putOk =>
                    /\ catalog[KeyOf(f.cdx)].respHeaders = f.remote.respHeaders
                    /\ catalog[KeyOf(f.cdx)].digest = f.remote.digest
                    /\ f.remote.extraOpts # Absent
                         => catalog[KeyOf(f.cdx)].extraOpts = f.remote.extraOpts

C3_Witness ==
    \E f \in Frames("c1") :
        /\ AcceptedPlain(f) /\ f.pc = "ret" /\ f.putOk
        /\ f.ret = BytesVal(<<2, 1>>)
        /\ catalog[KeyOf(f.cdx)].respHeaders = "hdrNew"
        /\ catalog[KeyOf(f.cdx)].extraOpts = "optNew"

\* C4: once the inline payload of a matching non-revisit record has been
\* committed, the payload store holds, under the entry's digest, exactly that
\* inline payload.
C4_InlineCommitted ==
    \A c \in Callers : \A f \in Frames(c) :
        (AcceptedPlain(f) /\ Truthy(f.remote.payload) /\ f.remote.digest \in StoreKeys
         /\ f.pc \in {"persist", "ret"})
            => payloadStore[f.remote.digest] = f.remote.payload

\* The records parsed during one call form a revisit cycle: A's record revisits
\* B, B's revisits A, A's again revisits B, none with a local payload.
IsCycle(hops) ==
    /\ Len(hops) = MaxRevisitDepth + 1
    /\ \A i \in DOMAIN hops : hops[i].origURL # 0 /\ ~hops[i].local
    /\ hops[1].origURL = hops[2].url /\ hops[1].origTS = hops[2].ts
    /\ hops[2].origURL = hops[1].url /\ hops[2].origTS = hops[1].ts
    /\ hops[3].url = hops[1].url /\ hops[3].ts = hops[1].ts
    /\ hops[3].origURL = hops[2].url /\ hops[3].origTS = hops[2].ts

RECURSIVE Attempts(_)
Attempts(frames) ==
    IF frames = <<>> THEN 0 ELSE Len(Head(frames).hops) + Attempts(Tail(frames))

\* C5: a call never has more than 3 activations nor parses more than 3 records,
\* a call in flight can always take its next step, and a call whose records form
\* a revisit cycle A -> B -> A with no local payloads returns "no payload".
C5_CycleBounded ==
    \A c \in Callers :
        stack[c] # <<>> =>
            /\ Len(stack[c]) <= MaxRevisitDepth + 1
            /\ Attempts(stack[c]) <= MaxRevisitDepth + 1
            /\ c = "c1" => ENABLED Step(c)
            /\ (IsCycle(stack[c][1].hops) /\ Len(stack[c]) = 1)
                   => \/ stack[c][1].pc = "resume" /\ stack[c][1].payload = None
                      \/ stack[c][1].pc = "ret" /\ stack[c][1].ret = None

C5_Witness ==
    /\ stack["c1"] # <<>>
    /\ Len(stack["c1"]) = 1
    /\ IsCycle(stack["c1"][1].hops)
    /\ stack["c1"][1].hops[1].url # stack["c1"][1].hops[2].url
    /\ stack["c1"][1].pc = "ret"

\* C6: a reader on which setLimitSkip was never called, read to the end with
\* the underlying reader's limit at 0, has made exactly one commitPayload call,
\* under its digest, with the bytes it yielded to the consumer, in order, which
\* are the N bytes of the stream, each pulled once.
C6_ExhaustedCommitsOnce ==
    \A c \in Callers :
        LET r == rd[c] IN
        /\ r.ncommits <= 1
        /\ (r.exists /\ r.alreadyRead /\ ~r.limited /\ r.limit = 0)
              => /\ r.ncommits = 1
                 /\ r.ckey = r.digest
                 /\ r.committed = BytesVal(r.yielded)
                 /\ r.fullbuff = r.committed
                 /\ r.yielded = r.data
                 /\ r.pos = Len(r.data)

C6_Witness ==
    LET r == rd["c1"] IN
    r.exists /\ r.alreadyRead /\ ~r.limited /\ r.limit = 0 /\ r.yielded = <<1, 2>>
    /\ r.ncommits = 1

\* C7: once a reader has been read (alreadyRead), it stays so, its chunk list is
\* empty, and nothing done with that reader afterwards yields a chunk, pulls
\* from the underlying reader, commits or writes the payload store.
C7_ReadOnce ==
    /\ [](\A c \in Callers : rd[c].alreadyRead => rd[c].chunks = <<>>)
    /\ [][\A c \in Callers :
            (rd[c].exists /\ rd[c].alreadyRead /\ rd'[c].exists /\ rd'[c].gen = rd[c].gen)
                => /\ rd'[c].alreadyRead
                   /\ rd'[c].chunks = <<>>
                   /\ rd'[c].yielded = rd[c].yielded
                   /\ rd'[c].pos = rd[c].pos
                   /\ rd'[c].ncommits = rd[c].ncommits
                   /\ payloadStore' = payloadStore]_vars

C7_Witness ==
    LET r == rd["c1"] IN
    r.exists /\ r.alreadyRead /\ r.reread /\ r.ncommits = 1 /\ r.yielded = <<1, 2>>

\* C8: once setLimitSkip has been called with skip > 0 and a finite limit, the
\* commit flag is false and stays false, and that reader makes no commitPayload
\* call and no write to the payload store afterwards.
C8_CutNeverCommits ==
    /\ [](\A c \in Callers : rd[c].cut => ~rd[c].commit)
    /\ [][\A c \in Callers :
            (rd[c].exists /\ rd[c].cut /\ rd'[c].exists /\ rd'[c].gen = rd[c].gen)
                => /\ rd'[c].cut
                   /\ rd'[c].ncommits = rd[c].ncommits
                   /\ payloadStore' = payloadStore]_vars

C8_Witness ==
    LET r == rd["c1"] IN
    r.exists /\ r.cut /\ r.alreadyRead /\ r.limit = 0 /\ r.skip = 0
    /\ Len(r.yielded) >= 1 /\ r.ncommits = 0

\* C9: when the underlying stream ends while the underlying reader's limit is
\* not 0, the reader makes no commit and the payload store is not written; a
\* truncated capture (fewer bytes than declared, no setLimitSkip) never commits.
C9_LeftoverNoCommit ==
    /\ [](\A c \in Callers :
            (rd[c].exists /\ ~rd[c].limited
             /\ rd[c].limit + Len(rd[c].yielded) > Len(rd[c].data))
                => rd[c].ncommits = 0)
    /\ [][\A c \in Callers :
            (rd[c].exists /\ ~rd[c].alreadyRead /\ rd'[c].alreadyRead
             /\ rd'[c].gen = rd[c].gen /\ rd'[c].limit # 0)
                => /\ rd'[c].ncommits = rd[c].ncommits
                   /\ payloadStore' = payloadStore]_vars

C9_Witness ==
    LET r == rd["c1"] IN
    r.exists /\ r.alreadyRead /\ ~r.limited /\ r.limit > 0 /\ r.gen = 1
    /\ Len(r.yielded) >= 1 /\ payloadStore["dA"] = None

\* C10: whatever setLimitSkip calls were made and however the reader was
\* consumed, the bytes a reader commits under its digest are the complete
\* payload of the record.
C10_NoPartialCommit ==
    \A c \in Callers :
        rd[c].ncommits > 0 => rd[c].committed = BytesVal(rd[c].data)

\* C11: a fetch that fails with a status other than 401/403 makes the
\* activation return "no payload" without throwing, and the step that made the
\* fetch writes neither the catalog nor the payload store and creates no reader.
C11_OtherFailureNoPayload ==
    /\ [](\A c \in Callers : \A f \in Frames(c) :
            (f.fetched = "error" /\ f.status \notin {401, 403})
                => (f.pc = "ret" /\ f.ret = None /\ catalog[KeyOf(f.cdx)] = f.cdx))
    /\ [][\A c \in Callers :
            (stack[c] # <<>> /\ Top(c).pc = "fetch" /\ stack'[c] # <<>>
             /\ Top(c)'.fetched = "error" /\ Top(c)'.status \notin {401, 403})
                => (payloadStore' = payloadStore /\ catalog' = catalog /\ rd' = rd)]_vars

C11_Witness ==
    \E f \in Frames("c1") :
        f.fetched = "error" /\ f.status = 500 /\ f.depth = 0 /\ f.pc = "ret"

\* C12: a failed put of the entry is never thrown out of an activation, on the
\* revisit path as on the non-revisit path, and an activation whose put failed
\* still returns the payload it obtained.
C12_PutFailureSwallowed ==
    \A c \in Callers : \A f \in Frames(c) :
        /\ f.pc = "throw" => f.ret.s # "StorageError"
        /\ (AcceptedPlain(f) /\ f.pc = "ret" /\ ~f.putOk) => ReturnsPayloadOf(c, f)

\* C13: a readFully call leaves the reader read with the underlying reader's
\* iteration over, and returns fullbuff. On a reader not yet read, that buffer is
\* the concatenation of every chunk the underlying reader yielded, and a commit
\* is made exactly when the underlying limit ended at 0 with the commit flag set,
\* with that buffer under the reader's digest. On a reader already read it
\* returns the buffer of the first read, pulls nothing and commits nothing.
C13_ReadFully ==
    [][RdReadFully("c1") =>
          LET r == rd["c1"]
              s == rd'["c1"]
          IN  /\ s.alreadyRead /\ s.chunks = <<>>
              /\ s.readRet = s.fullbuff
              /\ ~r.alreadyRead =>
                    /\ Exhausted(s)
                    /\ s.fullbuff = BytesVal(s.yielded)
                    /\ s.yielded = r.yielded \o SubSeq(r.data, r.pos + r.skip + 1, s.pos)
                         \/ r.pos + r.skip >= Len(r.data)
                    /\ s.ncommits = r.ncommits + (IF s.limit = 0 /\ s.commit THEN 1 ELSE 0)
                    /\ s.ncommits > r.ncommits
                          => (s.committed = s.fullbuff /\ s.ckey = s.digest)
              /\ r.alreadyRead =>
                    /\ s.readRet = r.fullbuff
                    /\ s.pos = r.pos /\ s.yielded = r.yielded
                    /\ s.ncommits = r.ncommits
                    /\ payloadStore' = payloadStore]_vars

C13_Witness ==
    LET r == rd["c1"] IN
    r.exists /\ r.alreadyRead /\ r.reread /\ r.readRet = BytesVal(<<1, 2>>)
    /\ r.ncommits = 1 /\ r.yielded = <<1, 2>> /\ payloadStore["dA"] = BytesVal(<<1, 2>>)

\* The entry has a local payload, resolved respHeaders and a mime other than
\* "warc/revisit".
LocallyResolved(cdx, store) ==
    /\ Truthy(SuperLoadPayload(cdx, store))
    /\ cdx.respHeaders # Absent
    /\ cdx.mime # "warc/revisit"

\* C14: an activation that starts on an entry with a local payload, resolved
\* respHeaders and a non-revisit mime returns that local payload at once: nothing
\* was fetched or parsed and the step writes neither the catalog nor the payload
\* store; an activation that starts on any other entry goes on to the fetch.
C14_LocalEarlyReturn ==
    /\ [](\A c \in Callers : \A f \in Frames(c) :
            /\ f.pc = "fetch" => (f.fetched = "none" /\ (c = "c1" => ENABLED Fetch(c)))
            /\ (f.pc = "ret" /\ f.fetched = "none")
                  => (Truthy(f.ret) /\ catalog[KeyOf(f.cdx)] = f.cdx))
    /\ [][\A c \in Callers :
            Len(stack'[c]) = Len(stack[c]) + 1 =>
                LET f == Top(c)' IN
                /\ LocallyResolved(f.cdx, payloadStore)
                      => /\ f.pc = "ret" /\ f.ret = SuperLoadPayload(f.cdx, payloadStore)
                         /\ f.fetched = "none" /\ f.hops = <<>>
                         /\ catalog' = catalog /\ payloadStore' = payloadStore
                         /\ digestRef' = digestRef
                /\ ~LocallyResolved(f.cdx, payloadStore)
                      => f.pc = "fetch"]_vars

C14_Witness ==
    \E f \in Frames("c1") :
        /\ f.depth = 0 /\ f.pc = "ret" /\ f.fetched = "none"
        /\ f.ret = BytesVal(<<1, 2>>) /\ f.cdx.respHeaders = "hdrNew"

\* The key of the original a revisit record points at.
OrigKey(r) == <<r.origURL, r.origTS>>

\* The step completes the revisit branch of caller c's current activation with
\* the put of the collapsed entry gone through.
RevisitDone(c) ==
    /\ stack[c] # <<>> /\ Top(c).pc \in {"lookup", "resume"}
    /\ Len(stack'[c]) = Len(stack[c])
    /\ Top(c)'.pc = "ret" /\ Top(c)'.putOk

\* The original entry as the revisit branch holds it when it rewrites its own
\* entry: the object the recursive call resolved, or the catalog row.
OrigOf(f, cat) == IF f.pc = "resume" THEN f.orig ELSE cat[OrigKey(f.remote)]

\* What RevisitDone always brings about: the entry takes respHeaders and mime
\* from the original, loses its inline payload and is the catalog row; nothing
\* is committed and no reader is created.
RevisitCollapses(c) ==
    LET f == Top(c)
        g == Top(c)'
        orig == OrigOf(f, catalog)
    IN  /\ g.cdx.respHeaders = orig.respHeaders
        /\ g.cdx.mime = orig.mime
        /\ g.cdx.payload = None
        /\ g.cdx = [f.cdx EXCEPT !.respHeaders = orig.respHeaders, !.mime = orig.mime,
                                 !.payload = None]
        /\ catalog' = [catalog EXCEPT ![KeyOf(g.cdx)] = g.cdx]
        /\ payloadStore' = payloadStore /\ digestRef' = digestRef /\ rd' = rd

\* The revisit points at an entry the catalog does not hold: "no payload" and
\* nothing written.
OrigAbsentNoPayload(c) ==
    (stack[c] # <<>> /\ Top(c).pc = "lookup" /\ OrigKey(Top(c).remote) \notin DOMAIN catalog)
        => /\ Len(stack'[c]) = Len(stack[c])
           /\ Top(c)'.pc = "ret" /\ Top(c)'.ret = None
           /\ catalog' = catalog /\ payloadStore' = payloadStore
           /\ digestRef' = digestRef /\ rd' = rd

DeadEnd(hops) ==
    Len(hops) = MaxRevisitDepth + 1
    /\ hops[MaxRevisitDepth + 1].origURL # 0 /\ ~hops[MaxRevisitDepth + 1].local

\* C16: a call parses at most 3 records, in activations at depths 0, 1, 2; a
\* call whose depth-2 record is a revisit with no local payload returns "no
\* payload" and no activation of it has written the catalog; and the payload a
\* non-revisit original yields at depth 1 or 2 is handed up unchanged through
\* every activation above it to the caller.
C16_ChainBounded ==
    /\ [](\A c \in Callers :
            /\ Attempts(stack[c]) <= MaxRevisitDepth + 1
            /\ \A i \in DOMAIN stack[c] :
                  stack[c][i].depth = i - 1 /\ i - 1 <= MaxRevisitDepth
            /\ (Len(stack[c]) = 1 /\ DeadEnd(stack[c][1].hops))
                  => LET f == stack[c][1] IN
                     /\ f.pc \in {"resume", "ret"}
                     /\ f.payload = None /\ f.ret = None
                     /\ ~f.putOk /\ ~f.below
                     /\ catalog[KeyOf(f.cdx)] = f.cdx
            /\ \A f \in Frames(c) :
                  (f.depth >= 1 /\ AcceptedPlain(f) /\ f.pc = "ret")
                      => ReturnsPayloadOf(c, f))
    /\ [][\A c \in Callers :
            /\ (Len(stack[c]) >= 2 /\ Top(c).pc = "ret" /\ Truthy(Top(c).ret))
                  => (Len(stack'[c]) = Len(stack[c]) - 1 /\ Top(c)'.pc = "resume"
                      /\ Top(c)'.payload = Top(c).ret)
            /\ (stack[c] # <<>> /\ Top(c).pc = "resume" /\ Truthy(Top(c).payload))
                  => (Len(stack'[c]) = Len(stack[c]) /\ Top(c)'.pc = "ret"
                      /\ Top(c)'.ret = Top(c).payload)]_vars

\* The activation accepted a matching non-revisit record that carries only a
\* reader, and is about to return it.
ReturnsStream(f) ==
    AcceptedPlain(f) /\ ~Truthy(f.remote.payload) /\ f.remote.hasReader /\ f.pc = "ret"

\* When the reader is about to be returned, nothing has been pulled from it
\* and it has committed nothing.
ReaderUntouched(c, f) ==
    Wrapped(f.remote) =>
        /\ rd[c].exists /\ rd[c].pos = 0 /\ rd[c].yielded = <<>>
        /\ rd[c].ncommits = 0 /\ ~rd[c].alreadyRead

\* A reader's commit is made by the step that ends its iteration, after every
\* chunk has been yielded, and loadPayload has returned by then; once
\* loadPayload has returned, the catalog is not written again.
CommitAfterLastChunk ==
    /\ [](\A c \in Callers :
            rd[c].ncommits > 0
                => (rd[c].alreadyRead /\ stack[c] = <<>>
                    /\ rd[c].committed = BytesVal(rd[c].yielded)))
    /\ [][(payloadStore' # payloadStore
               => (/\ stack["c1"] = <<>>
                   /\ ~rd["c1"].alreadyRead /\ rd'["c1"].alreadyRead
                   /\ rd'["c1"].limit = 0
                   /\ rd'["c1"].ncommits = rd["c1"].ncommits + 1
                   /\ payloadStore' =
                        [payloadStore EXCEPT
                            ![rd["c1"].digest] = BytesVal(rd'["c1"].yielded)]))
           /\ ((stack["c1"] = <<>> /\ stack'["c1"] = <<>>) => catalog' = catalog)]_vars

\* C17 as stated: when a reader-only record's reader is about to be returned,
\* the catalog holds the entry with the record's respHeaders, digest and
\* extraOpts and nothing has been pulled; the commit comes after the last chunk.
C17_Original ==
    /\ [](\A c \in Callers : \A f \in Frames(c) :
            ReturnsStream(f)
                => /\ ReaderUntouched(c, f)
                   /\ catalog[KeyOf(f.cdx)].respHeaders = f.remote.respHeaders
                   /\ catalog[KeyOf(f.cdx)].digest = f.remote.digest
                   /\ catalog[KeyOf(f.cdx)].extraOpts = f.remote.extraOpts)
    /\ CommitAfterLastChunk

\* C17 (amended): when a reader-only record's reader is about to be returned,
\* nothing has been pulled from it, and the put of the entry has been made: if
\* it went through, the catalog holds the entry with the record's respHeaders
\* and digest, and its extraOpts if the record carries any; the commit comes
\* only with the end of the iteration, after the last chunk, and no catalog
\* write follows the return.
C17_CatalogBeforeStream ==
    /\ [](\A c \in Callers : \A f \in Frames(c) :
            ReturnsStream(f)
                => /\ ReaderUntouched(c, f)
                   /\ f.putOk =>
                        /\ catalog[KeyOf(f.cdx)] = f.cdx
                        /\ catalog[KeyOf(f.cdx)].respHeaders = f.remote.respHeaders
                        /\ catalog[KeyOf(f.cdx)].digest = f.remote.digest
                        /\ f.remote.extraOpts # Absent
                              => catalog[KeyOf(f.cdx)].extraOpts = f.remote.extraOpts)
    /\ CommitAfterLastChunk

C17_Witness ==
    LET r == rd["c1"] IN
    /\ stack["c1"] = <<>> /\ result["c1"] = ReaderVal
    /\ r.exists /\ r.alreadyRead /\ r.ncommits = 1 /\ r.yielded = <<1, 2>>
    /\ payloadStore["dA"] = BytesVal(<<1, 2>>)
    /\ catalog[<<1, 2>>].respHeaders = "hdrNew" /\ catalog[<<1, 2>>].extraOpts = "optNew"

\* The catalog row of key k after a resolution of it whose put went through.
ResolvedRow(k) == Resolved(InitEntry(k[1]), Served(InitEntry(k[1])))

\* C18: with two callers resolving the same entry against the same valid
\* record, every catalog row is at all times what one resolution leaves (the
\* row as it was, or the resolved row), a put that goes through leaves the
\* resolved row, a resolved row is never changed again, the payload store is
\* left as one resolution leaves it, and each call returns a payload: the
\* record's inline bytes or reader, or the local payload under the digest.
C18_ConcurrentIdempotent ==
    /\ [](/\ \A k \in CatKeys : catalog[k] \in {InitEntry(k[1]), ResolvedRow(k)}
          /\ \A c \in Callers :
                /\ \A f \in Frames(c) :
                      /\ f.pc \notin {"throw", "lookup", "await", "resume"}
                      /\ f.pc = "ret" =>
                            \/ f.fetched = "none" /\ f.ret.t = "bytes"
                                 /\ f.cdx = ResolvedRow(KeyOf(f.cdx))
                            \/ f.fetched = "record" /\ ReturnsPayloadOf(c, f)
                /\ (stack[c] = <<>> /\ result[c] # None)
                      => (Truthy(result[c]) /\ result[c].t \in {"bytes", "reader", "rawreader"}))
    /\ [][(payloadStore' = payloadStore /\ digestRef' = digestRef)
           /\ (\A k \in CatKeys :
                 catalog[k] = ResolvedRow(k) => catalog'[k] = ResolvedRow(k))
           /\ (\A c \in Callers :
                 (stack'[c] # <<>> /\ Top(c)'.putOk /\ (stack[c] = <<>> \/ ~Top(c).putOk))
                     => catalog'[KeyOf(Top(c)'.cdx)] = ResolvedRow(KeyOf(Top(c)'.cdx)))]_vars

C18_Witness ==
    /\ stack["c1"] # <<>> /\ stack["c2"] # <<>>
    /\ Top("c1").pc = "ret" /\ ~Top("c1").putOk /\ Top("c1").ret = BytesVal(<<2, 1>>)
    /\ Top("c2").pc = "ret" /\ Top("c2").putOk /\ Top("c2").ret = BytesVal(<<2, 1>>)
    /\ catalog[<<1, 2>>] = ResolvedRow(<<1, 2>>)

\* C19: a commitPayload call neither creates nor removes a ref-count row and
\* changes no field of one but size; with ref counting off the ref store is
\* untouched; a row that is rewritten gets the length of the payload stored
\* under its digest by that call; and committing the same payload under the
\* same digest a second time changes neither store.
C19_RefRowsNeverCreated ==
    /\ [](\A a \in CommitArgs :
            LET once == CommitStore(payloadStore, a.payload, a.digest, TRUE)
                refs == CommitRefs(digestRef, useRefCounts, a.payload, a.digest, TRUE)
            IN  /\ CommitStore(once, a.payload, a.digest, TRUE) = once
                /\ CommitRefs(refs, useRefCounts, a.payload, a.digest, TRUE) = refs)
    /\ [][CommitPayload =>
            /\ ~useRefCounts => digestRef' = digestRef
            /\ \A d \in StoreKeys :
                  /\ digestRef'[d].present = digestRef[d].present
                  /\ digestRef'[d].count = digestRef[d].count
                  /\ digestRef'[d] # digestRef[d]
                        => /\ payloadStore'[d].t = "bytes"
                           /\ digestRef'[d].size = Len(payloadStore'[d].b)]_vars

C19_Witness ==
    /\ useRefCounts
    /\ digestRef["dA"] = [present |-> TRUE, size |-> 1, count |-> 2]
    /\ payloadStore["dA"] = BytesVal(<<2>>)
    /\ ~digestRef["dB"].present /\ payloadStore["dB"] = BytesVal(<<1, 2>>)

\* C20: commitPayload writes nothing for an absent payload and for a zero-length
\* byte buffer, so no payload row ever holds a zero-length buffer.
C20_EmptyNoop ==
    \A d \in StoreKeys : payloadStore[d] # BytesVal(<<>>)

====
